---- MODULE Spec2Model ----
(***************************************************************************)
(* Model of botmain.py: the quote catalog is loaded once at import time    *)
(* (load_quotes), then the client library delivers on_ready and on_message *)
(* events one at a time.  Strings that the code inspects character by      *)
(* character (message contents) are sequences of one-character strings;    *)
(* quotes and diagnostics are opaque strings.  random.random() is modelled *)
(* in hundredths (0..99 stands for [0,1)), random.choice by the index it   *)
(* picks.                                                                  *)
(***************************************************************************)
EXTENDS Integers, Sequences, FiniteSets, TLC

(* file       : quotes.json on disk (kind of load outcome, parsed content)  *)
(* pc         : "import" before load_quotes, "running" once the module has  *)
(*              loaded, "crashed" when an exception escaped the import      *)
(* quotes     : the module-level catalog                                    *)
(* console    : lines printed so far                                        *)
(* fileReads  : number of times quotes.json was opened                      *)
(* readyCount : on_ready events delivered                                   *)
(* sent       : per channel, the strings passed to channel.send, in order   *)
(* nEvents    : on_message events delivered                                 *)
(* last       : inputs and outcome of the latest on_message call; an        *)
(*              exception raised inside the handler is reported by the      *)
(*              client library and the process keeps running                *)
(* probe      : history variable, an arbitrary earlier value of last        *)
VARIABLES file, pc, quotes, console, fileReads, readyCount, sent, nEvents, last, probe

vars == <<file, pc, quotes, console, fileReads, readyCount, sent, nEvents, last, probe>>

(* ---------------------------- bounds ----------------------------------- *)
MaxQuotes == 2
MaxEvents == 2
MaxReady == 1

(* ------------------------- program constants --------------------------- *)
Threshold == 75
SnarkFallback == "Your JSON is empty. Shame."
ItCrowdFallback == "Where are the quotes, Roy?"
MissingMsg == "quotes.json is missing. Congrats."
InvalidMsg == "quotes.json is invalid JSON. Impressive."
ReadyMsg == "Logged in as TestBot, who is definitely judging you."
CommandPrefix == <<"!", "p", "r", "i", "n", "t", "q", "u", "o", "t", "e">>
ClientUser == "TestBot"
EmptyCatalog == [k \in {"snark", "it_crowd"} |-> <<>>]

(* ------------------------- input universes ----------------------------- *)
Users == {ClientUser, "SomeoneElse"}
Channels == {"general", "printing"}
Draws == {0, 74, 75, 99}
SnarkPool == <<"S1", "S2", "S3", "S4">>
ItCrowdPool == <<"I1", "I2", "I3", "I4">>
Contents ==
    { <<"!", "p", "r", "i", "n", "t", "q", "u", "o", "t", "e">>,
      <<"!", "P", "r", "i", "n", "t", "Q", "U", "O", "T", "E", " ", "x">>,
      <<"!", "p", "r", "i", "n", "t", "q", "u", "o", "t">>,
      <<"x", "!", "p", "r", "i", "n", "t", "q", "u", "o", "t", "e">> }

Lists(pool) == { SubSeq(pool, 1, n) : n \in 0..MaxQuotes }
Catalogs ==
    UNION { [ks -> UNION {Lists(SnarkPool), Lists(ItCrowdPool)}] : ks \in SUBSET {"snark", "it_crowd"} }
WellFormedCatalogs ==
    { c \in Catalogs : /\ "snark" \in DOMAIN c => c["snark"] \in Lists(SnarkPool)
                       /\ "it_crowd" \in DOMAIN c => c["it_crowd"] \in Lists(ItCrowdPool) }
Files ==
    { [kind |-> k, data |-> <<>>] : k \in {"missing", "malformed", "undecodable", "unreadable"} }
    \cup { [kind |-> "ok", data |-> c] : c \in WellFormedCatalogs }

Range(s) == { s[i] : i \in DOMAIN s }
NoCatalog == [unloaded |-> <<>>]
NoEvent == [author |-> "", content |-> <<>>, channel |-> "", draw |-> <<>>,
            pick |-> 0, result |-> "none", reply |-> ""]

(* ------------------------- pure helpers -------------------------------- *)
LowerChar(c) ==
    CASE c = "P" -> "p" [] c = "R" -> "r" [] c = "I" -> "i" [] c = "N" -> "n"
      [] c = "T" -> "t" [] c = "Q" -> "q" [] c = "U" -> "u" [] c = "O" -> "o"
      [] c = "E" -> "e" [] c = "X" -> "x" [] OTHER -> c

Lower(s) == [i \in DOMAIN s |-> LowerChar(s[i])]

StartsWith(s, p) == Len(s) >= Len(p) /\ SubSeq(s, 1, Len(p)) = p

Get(q, key, default) == IF key \in DOMAIN q THEN q[key] ELSE default

(* Variant: compares the author with the client object, not client.user.   *)
IsSelfClientObject(author) == author = "client"

IsSelf(author) == author = ClientUser

(* Variants of the trigger test: a substring test, a case-sensitive prefix  *)
(* test, and a test that refuses to answer twice in a row.                 *)
IsCommandContains(content) ==
    \E i \in 0..(Len(content) - Len(CommandPrefix)) :
        SubSeq(Lower(content), i + 1, i + Len(CommandPrefix)) = CommandPrefix

IsCommandCaseSensitive(content) == StartsWith(content, CommandPrefix)

IsCommandCooldown(content) ==
    StartsWith(Lower(content), CommandPrefix) /\ last.result # "sent"

IsCommand(content) == StartsWith(Lower(content), CommandPrefix)

(* Variants of the branch: the categories exchanged, and <= for <.         *)
CandidatesSwapped(q, draw) ==
    IF draw < Threshold
    THEN Get(q, "it_crowd", <<ItCrowdFallback>>)
    ELSE Get(q, "snark", <<SnarkFallback>>)

CandidatesLeq(q, draw) ==
    IF draw <= Threshold
    THEN Get(q, "snark", <<SnarkFallback>>)
    ELSE Get(q, "it_crowd", <<ItCrowdFallback>>)

Candidates(q, draw) ==
    IF draw < Threshold
    THEN Get(q, "snark", <<SnarkFallback>>)
    ELSE Get(q, "it_crowd", <<ItCrowdFallback>>)

SendTo(channel, quote) == sent' = [sent EXCEPT ![channel] = Append(@, quote)]

(* ------------------------------ state ---------------------------------- *)
Init ==
    /\ file \in Files
    /\ pc = "import"
    /\ quotes = NoCatalog
    /\ console = <<>>
    /\ fileReads = 0
    /\ readyCount = 0
    /\ sent = [c \in Channels |-> <<>>]
    /\ nEvents = 0
    /\ last = NoEvent
    /\ probe = NoEvent

(* What load_quotes does with the file: the value it returns and what it   *)
(* prints, or the exception that escapes it.  Only FileNotFoundError and   *)
(* json.JSONDecodeError are caught; PermissionError ("unreadable") and     *)
(* UnicodeDecodeError ("undecodable") propagate.                           *)
Load(f) ==
    CASE f.kind = "ok" ->
           [raised |-> FALSE, value |-> f.data, printed |-> <<>>]
      [] f.kind = "missing" ->
           [raised |-> FALSE, value |-> EmptyCatalog, printed |-> <<MissingMsg>>]
      [] f.kind = "malformed" ->
           [raised |-> FALSE, value |-> EmptyCatalog, printed |-> <<InvalidMsg>>]
      [] OTHER ->
           [raised |-> TRUE, value |-> NoCatalog, printed |-> <<>>]

load_quotes ==
    /\ pc = "import"
    /\ fileReads' = fileReads + 1
    /\ LET r == Load(file) IN
         /\ console' = console \o r.printed
         /\ quotes' = IF r.raised THEN quotes ELSE r.value
         /\ pc' = IF r.raised THEN "crashed" ELSE "running"
    /\ UNCHANGED <<file, readyCount, sent, nEvents, last, probe>>

(* Variant: the catalog is read again on every (re)connect.                 *)
on_ready_reloads ==
    /\ pc = "running"
    /\ readyCount < MaxReady
    /\ readyCount' = readyCount + 1
    /\ console' = Append(console, ReadyMsg)
    /\ fileReads' = fileReads + 1
    /\ quotes' = Load(file).value
    /\ UNCHANGED <<file, pc, sent, nEvents, last, probe>>

on_ready ==
    /\ pc = "running"
    /\ readyCount < MaxReady
    /\ readyCount' = readyCount + 1
    /\ console' = Append(console, ReadyMsg)
    /\ UNCHANGED <<file, pc, quotes, fileReads, sent, nEvents, last, probe>>

Event(author, content, channel, draw, pick, result, reply) ==
    [author |-> author, content |-> content, channel |-> channel, draw |-> draw,
     pick |-> pick, result |-> result, reply |-> reply]

on_message ==
    /\ pc = "running"
    /\ nEvents < MaxEvents
    /\ nEvents' = nEvents + 1
    /\ \E author \in Users, content \in Contents, channel \in Channels :
         IF IsSelf(author)
         THEN /\ last' = Event(author, content, channel, <<>>, 0, "ignored", "")
              /\ sent' = sent
         ELSE IF IsCommand(content)
         THEN \E draw \in Draws :
                LET seq == Candidates(quotes, draw) IN
                IF seq = <<>>
                THEN /\ last' = Event(author, content, channel, <<draw>>, 0, "IndexError", "")
                     /\ sent' = sent
                ELSE \E pick \in 1..Len(seq) :
                       /\ last' = Event(author, content, channel, <<draw>>, pick, "sent", seq[pick])
                       /\ SendTo(channel, seq[pick])
         ELSE /\ last' = Event(author, content, channel, <<>>, 0, "ignored", "")
              /\ sent' = sent
    /\ probe' \in {probe, last'}
    /\ UNCHANGED <<file, pc, quotes, console, fileReads, readyCount>>

Next == load_quotes \/ on_ready \/ on_message

Spec == Init /\ [][Next]_vars

(* ------------------------- claim vocabulary ---------------------------- *)
(* A step of on_message: the event counter advances.                      *)
Handled == nEvents' = nEvents + 1

HasPrefix(content) ==
    /\ Len(content) >= Len(CommandPrefix)
    /\ [i \in 1..Len(CommandPrefix) |-> LowerChar(content[i])] = CommandPrefix

FromOther(e) == e.result # "none" /\ e.author # ClientUser

CommandFromOther(e) == FromOther(e) /\ HasPrefix(e.content)

SnarkBranch(e) == e.draw # <<>> /\ e.draw[1] < 75

ItCrowdBranch(e) == e.draw # <<>> /\ e.draw[1] >= 75

NonEmptyCategory(key) == key \in DOMAIN quotes /\ Len(quotes[key]) > 0

DeliveredTo(e) ==
    /\ e.result = "sent"
    /\ Len(sent[e.channel]) > 0
    /\ sent[e.channel][Len(sent[e.channel])] = e.reply

(* C1: a message authored by client.user never causes a send, whatever its *)
(* content (command prefix included) and whatever the catalog.             *)
C1_SelfNeverReplied ==
    [][(Handled /\ last'.author = ClientUser) => sent' = sent]_vars

C1_Witness ==
    /\ last.author = ClientUser
    /\ HasPrefix(last.content)
    /\ NonEmptyCategory("snark") /\ NonEmptyCategory("it_crowd")
    /\ nEvents = MaxEvents

(* C2 (as claimed): a command whose branch selects an empty or missing     *)
(* category is answered with that branch's fallback string.                *)
C2_FallbackOnEmptyOrMissing ==
    CommandFromOther(last) =>
        /\ (SnarkBranch(last) /\ ~NonEmptyCategory("snark"))
              => (DeliveredTo(last) /\ last.reply = SnarkFallback)
        /\ (ItCrowdBranch(last) /\ ~NonEmptyCategory("it_crowd"))
              => (DeliveredTo(last) /\ last.reply = ItCrowdFallback)

(* C3 (as claimed): after a degraded startup (missing or malformed file)   *)
(* every command from another user is handled without an error and is      *)
(* answered in the originating channel.                                    *)
C3_NoCrashAfterDegradedStartup ==
    (file.kind \in {"missing", "malformed"} /\ pc # "import") =>
        /\ pc = "running"
        /\ CommandFromOther(last) => (last.result # "IndexError" /\ DeliveredTo(last))

C5_ItCrowdBranchRepliesItCrowd ==
    (CommandFromOther(last) /\ ItCrowdBranch(last) /\ NonEmptyCategory("it_crowd")) =>
        /\ DeliveredTo(last)
        /\ last.reply \in Range(quotes["it_crowd"])

C5_Witness ==
    /\ CommandFromOther(last) /\ last.draw = <<75>>
    /\ NonEmptyCategory("snark") /\ NonEmptyCategory("it_crowd")
    /\ last.reply = quotes["it_crowd"][Len(quotes["it_crowd"])]
    /\ DeliveredTo(last)

(* C6 (as claimed): on every read failure and every parse failure of       *)
(* quotes.json load_quotes returns {"snark": [], "it_crowd": []} and logs  *)
(* a diagnostic without raising; the missing-file diagnostic differs from  *)
(* the malformed-content one.                                              *)
C6_EveryLoadFailureDegrades ==
    (file.kind # "ok" /\ pc # "import") =>
        /\ pc = "running"
        /\ quotes = EmptyCatalog
        /\ Len(console) > 0
        /\ console[1] = (IF file.kind = "missing" THEN MissingMsg ELSE InvalidMsg)
        /\ MissingMsg # InvalidMsg

(* C7: a message whose lower-cased content does not start with             *)
(* '!printquote' is ignored silently: nothing is sent to any channel and   *)
(* no error is raised, for every author and catalog.                       *)
C7_NonCommandIgnored ==
    [][(Handled /\ ~HasPrefix(last'.content))
          => (sent' = sent /\ last'.result = "ignored")]_vars

C7_Witness ==
    /\ FromOther(last)
    /\ Len(last.content) > Len(CommandPrefix)
    /\ ~HasPrefix(last.content)
    /\ last.result = "ignored"
    /\ NonEmptyCategory("snark") /\ NonEmptyCategory("it_crowd")

(* C8: every message from another user whose lower-cased content starts    *)
(* with '!printquote' (any letter case, any trailing text) causes exactly  *)
(* one send, to the channel the message came from, when the selected       *)
(* category is non-empty.                                                  *)
C8_CommandSendsOnceToOrigin ==
    [][(Handled /\ CommandFromOther(last')) =>
          /\ last'.draw # <<>>
          /\ ((SnarkBranch(last') /\ NonEmptyCategory("snark"))
               \/ (ItCrowdBranch(last') /\ NonEmptyCategory("it_crowd")))
              => \E q \in Range(Get(quotes, "snark", <<>>)) \cup Range(Get(quotes, "it_crowd", <<>>)) :
                    sent' = [sent EXCEPT ![last'.channel] = Append(@, q)]]_vars

C8_Witness ==
    /\ CommandFromOther(last)
    /\ last.content # CommandPrefix
    /\ last.content # Lower(last.content)
    /\ DeliveredTo(last)
    /\ \E c \in Channels : c # last.channel /\ sent[c] = <<>>

(* C9: once loaded, the catalog never changes and the file is not read     *)
(* again, across on_ready and on_message events of every kind.             *)
C9_CatalogFrozenAfterLoad ==
    [][pc = "running" => (quotes' = quotes /\ fileReads' = fileReads /\ fileReads = 1)]_vars

C9_Witness ==
    /\ pc = "running" /\ fileReads = 1
    /\ file.kind = "ok" /\ quotes = file.data
    /\ readyCount > 0 /\ nEvents > 1
    /\ last.result = "sent" /\ probe.result = "ignored"

(* C10: the outcome of on_message (whether a reply is sent and which) is   *)
(* the same for the same author, content and random draws, whatever was    *)
(* handled before: an earlier event sampled in probe agrees with the       *)
(* latest event whenever their inputs agree.                               *)
C10_OutcomeIndependentOfHistory ==
    (/\ last.result # "none" /\ probe.result # "none"
     /\ last.author = probe.author /\ last.content = probe.content) =>
        /\ (last.result = "ignored") <=> (probe.result = "ignored")
        /\ (last.draw = probe.draw /\ last.pick = probe.pick)
              => (last.result = probe.result /\ last.reply = probe.reply)

C10_Witness ==
    /\ nEvents > 1
    /\ last.result = "sent" /\ probe.result = "sent"
    /\ last.author = probe.author /\ last.content = probe.content
    /\ last.draw = probe.draw /\ last.pick = probe.pick
    /\ last.channel # probe.channel

====
